---- MODULE Spec2Model ----
(***************************************************************************)
(* State-machine model of the fluxapay contracts:                          *)
(*   - PaymentProcessor (src/fluxapay/src/lib.rs): payment lifecycle       *)
(*   - AccessControl    (src/fluxapay/src/access_control.rs): role grants  *)
(*     and the admin singleton                                             *)
(*   - RefundManager    (src/fluxapay/src/lib.rs): refund lifecycle, gated *)
(*     by AccessControl roles                                              *)
(*   - MerchantRegistry (src/fluxapay/src/merchant_registry.rs): merchant  *)
(*     profiles and the verification flag                                  *)
(* Every public operation is one atomic step (one contract invocation).    *)
(* The record `call` holds the invocation just executed: its name, the     *)
(* arguments that select what it acts on, and whether it failed and how.   *)
(***************************************************************************)
EXTENDS Integers, Sequences, FiniteSets, TLC

\* ------------------------------------------------------------------ bounds
\* Ledger timestamps range over 0..MaxTime, amounts over -1..MaxAmount.
MaxTime == 2
MaxAmount == 2

\* ------------------------------------------------------------ input domains
\* "" is the empty payment id (String::is_empty).
PaymentIds == {"", "p1", "p2"}
Amounts == (0 - 1)..MaxAmount
Times == 0..MaxTime
\* expires_at values a caller passes: each can be reached and passed by the clock.
ExpiryTimes == 0..(MaxTime - 1)
Merchants == {"m1"}
Currencies == {"USDC"}
DepositAddresses == {"d1"}
Payers == {"payer1"}
Hashes == {"h1"}

Accounts == {"a1", "a2", "a3"}

\* Option<T>: None is the empty sequence, Some(v) the one-element sequence.
NoneVal == << >>
Some(v) == << v >>
Unit == << >>

VARIABLES
    payments,   \* persistent storage DataKey::Payment(id) -> PaymentCharge
    events,     \* the published PAYMENT events: per payload payment_id, the topics in order
    now,        \* env.ledger().timestamp()
    roles,      \* persistent storage AccessControlDataKey::Role(role, account) -> true
    admin,      \* persistent storage AccessControlDataKey::Admin (Option<Address>)
    refunds,            \* persistent storage DataKey::Refund(refund_id) -> Refund
    payment_refunds,    \* persistent storage DataKey::PaymentRefunds(payment_id) -> Vec<String>
    refund_counter,     \* persistent storage DataKey::RefundCounter, 0 while unset
    issued,             \* history: the (refund_id, payment_id) of every successful create_refund, in order
    merchants,          \* MerchantRegistry storage DataKey::Merchant(merchant_id) -> Merchant
    registry_admin,     \* MerchantRegistry storage DataKey::Admin (Option<Address>)
    call        \* the invocation just executed and its result

vars == << payments, events, now, roles, admin, refunds, payment_refunds, refund_counter,
           issued, merchants, registry_admin, call >>

\* The storage of the RefundManager's refund part and of the MerchantRegistry.
refundVars == << refunds, payment_refunds, refund_counter, issued >>
merchantVars == << merchants, registry_admin >>

\* ------------------------------------------------------- PaymentProcessor

PENDING == "Pending"
CONFIRMED == "Confirmed"
EXPIRED == "Expired"
FAILED == "Failed"
PaymentStatus == {PENDING, CONFIRMED, EXPIRED, FAILED}

\* env.storage().persistent().has(&DataKey::Payment(id))
has_payment(id) == id \in DOMAIN payments

\* env.storage().persistent().set(&DataKey::Payment(id), &payment)
set_payment(id, payment) ==
    [x \in (DOMAIN payments) \cup {id} |-> IF x = id THEN payment ELSE payments[x]]

\* env.events().publish(("PAYMENT", topic), payment_id)
publish(topic, id) == [events EXCEPT ![id] = Append(@, topic)]

\* What an invocation of PaymentProcessor yields: its result and the store
\* and event stream it leaves.
PayOk(ret, store, evs) ==
    [ok |-> TRUE, err |-> "", ret |-> ret, payments |-> store, events |-> evs]
PayErr(e) ==
    [ok |-> FALSE, err |-> e, ret |-> Unit, payments |-> payments, events |-> events]

\* String::is_empty
is_empty(id) == id = ""

\* Faulty variants of create_payment, against which C6 and C7 are tested.
\* (1) the existence check is missing: a second create overwrites the record.
create_payment_overwrites(payment_id, merchant_id, amount, currency, deposit_address, expires_at) ==
    IF amount <= 0 THEN PayErr("InvalidAmount")
    ELSE IF is_empty(payment_id) THEN PayErr("InvalidPaymentId")
    ELSE LET payment == [payment_id |-> payment_id,
                         merchant_id |-> merchant_id,
                         amount |-> amount,
                         currency |-> currency,
                         deposit_address |-> deposit_address,
                         status |-> PENDING,
                         payer_address |-> NoneVal,
                         transaction_hash |-> NoneVal,
                         created_at |-> now,
                         confirmed_at |-> NoneVal,
                         expires_at |-> expires_at]
         IN PayOk(payment, set_payment(payment_id, payment), publish("CREATED", payment_id))

\* (2) the amount check is amount < 0: a zero amount is accepted.
create_payment_accepts_zero(payment_id, merchant_id, amount, currency, deposit_address, expires_at) ==
    IF amount < 0 THEN PayErr("InvalidAmount")
    ELSE IF has_payment(payment_id) THEN PayErr("PaymentAlreadyExists")
    ELSE IF is_empty(payment_id) THEN PayErr("InvalidPaymentId")
    ELSE LET payment == [payment_id |-> payment_id,
                         merchant_id |-> merchant_id,
                         amount |-> amount,
                         currency |-> currency,
                         deposit_address |-> deposit_address,
                         status |-> PENDING,
                         payer_address |-> NoneVal,
                         transaction_hash |-> NoneVal,
                         created_at |-> now,
                         confirmed_at |-> NoneVal,
                         expires_at |-> expires_at]
         IN PayOk(payment, set_payment(payment_id, payment), publish("CREATED", payment_id))

create_payment(payment_id, merchant_id, amount, currency, deposit_address, expires_at) ==
    IF amount <= 0 THEN PayErr("InvalidAmount")
    ELSE IF has_payment(payment_id) THEN PayErr("PaymentAlreadyExists")
    ELSE IF is_empty(payment_id) THEN PayErr("InvalidPaymentId")
    ELSE LET payment == [payment_id |-> payment_id,
                         merchant_id |-> merchant_id,
                         amount |-> amount,
                         currency |-> currency,
                         deposit_address |-> deposit_address,
                         status |-> PENDING,
                         payer_address |-> NoneVal,
                         transaction_hash |-> NoneVal,
                         created_at |-> now,
                         confirmed_at |-> NoneVal,
                         expires_at |-> expires_at]
         IN PayOk(payment, set_payment(payment_id, payment), publish("CREATED", payment_id))

\* Faulty variants of verify_payment, against which C2, C3 and C5 are tested.
\* (1) the status check is missing: a processed payment is verified again.
verify_payment_reverifies(payment_id, transaction_hash, payer_address, amount_received) ==
    IF ~has_payment(payment_id) THEN PayErr("PaymentNotFound")
    ELSE LET payment == payments[payment_id] IN
         IF now > payment.expires_at THEN PayErr("PaymentExpired")
         ELSE IF amount_received # payment.amount
              THEN PayOk(FAILED,
                         set_payment(payment_id, [payment EXCEPT !.status = FAILED]),
                         publish("FAILED", payment_id))
              ELSE PayOk(CONFIRMED,
                         set_payment(payment_id,
                                     [payment EXCEPT !.status = CONFIRMED,
                                                     !.payer_address = Some(payer_address),
                                                     !.transaction_hash = Some(transaction_hash),
                                                     !.confirmed_at = Some(now)]),
                         publish("VERIFIED", payment_id))

\* (2) the amount check is amount_received < amount: an overpayment confirms.
verify_payment_accepts_overpayment(payment_id, transaction_hash, payer_address, amount_received) ==
    IF ~has_payment(payment_id) THEN PayErr("PaymentNotFound")
    ELSE LET payment == payments[payment_id] IN
         IF payment.status # PENDING THEN PayErr("PaymentAlreadyProcessed")
         ELSE IF now > payment.expires_at THEN PayErr("PaymentExpired")
         ELSE IF amount_received < payment.amount
              THEN PayOk(FAILED,
                         set_payment(payment_id, [payment EXCEPT !.status = FAILED]),
                         publish("FAILED", payment_id))
              ELSE PayOk(CONFIRMED,
                         set_payment(payment_id,
                                     [payment EXCEPT !.status = CONFIRMED,
                                                     !.payer_address = Some(payer_address),
                                                     !.transaction_hash = Some(transaction_hash),
                                                     !.confirmed_at = Some(now)]),
                         publish("VERIFIED", payment_id))

\* (3) the amount is compared before the expiry: a wrong amount on an expired
\* payment stores Failed.
verify_payment_amount_before_expiry(payment_id, transaction_hash, payer_address, amount_received) ==
    IF ~has_payment(payment_id) THEN PayErr("PaymentNotFound")
    ELSE LET payment == payments[payment_id] IN
         IF payment.status # PENDING THEN PayErr("PaymentAlreadyProcessed")
         ELSE IF amount_received # payment.amount
              THEN PayOk(FAILED,
                         set_payment(payment_id, [payment EXCEPT !.status = FAILED]),
                         publish("FAILED", payment_id))
         ELSE IF now > payment.expires_at THEN PayErr("PaymentExpired")
         ELSE PayOk(CONFIRMED,
                    set_payment(payment_id,
                                [payment EXCEPT !.status = CONFIRMED,
                                                !.payer_address = Some(payer_address),
                                                !.transaction_hash = Some(transaction_hash),
                                                !.confirmed_at = Some(now)]),
                    publish("VERIFIED", payment_id))

\* Faulty variant of verify_payment, against which C25 is tested: the payer
\* and the transaction hash are recorded on an amount mismatch too.
verify_payment_records_failed_payer(payment_id, transaction_hash, payer_address, amount_received) ==
    IF ~has_payment(payment_id) THEN PayErr("PaymentNotFound")
    ELSE LET payment == payments[payment_id] IN
         IF payment.status # PENDING THEN PayErr("PaymentAlreadyProcessed")
         ELSE IF now > payment.expires_at THEN PayErr("PaymentExpired")
         ELSE IF amount_received # payment.amount
              THEN PayOk(FAILED,
                         set_payment(payment_id,
                                     [payment EXCEPT !.status = FAILED,
                                                     !.payer_address = Some(payer_address),
                                                     !.transaction_hash = Some(transaction_hash)]),
                         publish("FAILED", payment_id))
              ELSE PayOk(CONFIRMED,
                         set_payment(payment_id,
                                     [payment EXCEPT !.status = CONFIRMED,
                                                     !.payer_address = Some(payer_address),
                                                     !.transaction_hash = Some(transaction_hash),
                                                     !.confirmed_at = Some(now)]),
                         publish("VERIFIED", payment_id))

\* Faulty variant of verify_payment, against which C28 is tested: a payment
\* counts as expired from now = expires_at on.
verify_payment_expired_at_expiry(payment_id, transaction_hash, payer_address, amount_received) ==
    IF ~has_payment(payment_id) THEN PayErr("PaymentNotFound")
    ELSE LET payment == payments[payment_id] IN
         IF payment.status # PENDING THEN PayErr("PaymentAlreadyProcessed")
         ELSE IF now >= payment.expires_at THEN PayErr("PaymentExpired")
         ELSE IF amount_received # payment.amount
              THEN PayOk(FAILED,
                         set_payment(payment_id, [payment EXCEPT !.status = FAILED]),
                         publish("FAILED", payment_id))
              ELSE PayOk(CONFIRMED,
                         set_payment(payment_id,
                                     [payment EXCEPT !.status = CONFIRMED,
                                                     !.payer_address = Some(payer_address),
                                                     !.transaction_hash = Some(transaction_hash),
                                                     !.confirmed_at = Some(now)]),
                         publish("VERIFIED", payment_id))

\* Faulty variant of verify_payment, against which C29 is tested: the expiry
\* is not looked at.
verify_payment_ignores_expiry(payment_id, transaction_hash, payer_address, amount_received) ==
    IF ~has_payment(payment_id) THEN PayErr("PaymentNotFound")
    ELSE LET payment == payments[payment_id] IN
         IF payment.status # PENDING THEN PayErr("PaymentAlreadyProcessed")
         ELSE IF amount_received # payment.amount
              THEN PayOk(FAILED,
                         set_payment(payment_id, [payment EXCEPT !.status = FAILED]),
                         publish("FAILED", payment_id))
              ELSE PayOk(CONFIRMED,
                         set_payment(payment_id,
                                     [payment EXCEPT !.status = CONFIRMED,
                                                     !.payer_address = Some(payer_address),
                                                     !.transaction_hash = Some(transaction_hash),
                                                     !.confirmed_at = Some(now)]),
                         publish("VERIFIED", payment_id))

verify_payment(payment_id, transaction_hash, payer_address, amount_received) ==
    IF ~has_payment(payment_id) THEN PayErr("PaymentNotFound")
    ELSE LET payment == payments[payment_id] IN
         IF payment.status # PENDING THEN PayErr("PaymentAlreadyProcessed")
         ELSE IF now > payment.expires_at THEN PayErr("PaymentExpired")
         ELSE IF amount_received # payment.amount
              THEN PayOk(FAILED,
                         set_payment(payment_id, [payment EXCEPT !.status = FAILED]),
                         publish("FAILED", payment_id))
              ELSE PayOk(CONFIRMED,
                         set_payment(payment_id,
                                     [payment EXCEPT !.status = CONFIRMED,
                                                     !.payer_address = Some(payer_address),
                                                     !.transaction_hash = Some(transaction_hash),
                                                     !.confirmed_at = Some(now)]),
                         publish("VERIFIED", payment_id))

get_payment(payment_id) ==
    IF ~has_payment(payment_id) THEN PayErr("PaymentNotFound")
    ELSE PayOk(payments[payment_id], payments, events)

\* Faulty variants of cancel_payment, against which C1 and C4 are tested.
\* (1) the status check is missing: a processed payment is cancelled.
cancel_payment_any_status(payment_id) ==
    IF ~has_payment(payment_id) THEN PayErr("PaymentNotFound")
    ELSE LET payment == payments[payment_id] IN
         IF now <= payment.expires_at THEN PayErr("Unauthorized")
         ELSE PayOk(Unit,
                    set_payment(payment_id, [payment EXCEPT !.status = EXPIRED]),
                    publish("CANCELLED", payment_id))

\* (2) the expiry check is now < expires_at: cancelling at the expiry instant
\* succeeds.
cancel_payment_at_expiry(payment_id) ==
    IF ~has_payment(payment_id) THEN PayErr("PaymentNotFound")
    ELSE LET payment == payments[payment_id] IN
         IF payment.status # PENDING THEN PayErr("PaymentAlreadyProcessed")
         ELSE IF now < payment.expires_at THEN PayErr("Unauthorized")
         ELSE PayOk(Unit,
                    set_payment(payment_id, [payment EXCEPT !.status = EXPIRED]),
                    publish("CANCELLED", payment_id))

\* Faulty variant of cancel_payment, against which C24 is tested: no event is
\* published.
cancel_payment_silent(payment_id) ==
    IF ~has_payment(payment_id) THEN PayErr("PaymentNotFound")
    ELSE LET payment == payments[payment_id] IN
         IF payment.status # PENDING THEN PayErr("PaymentAlreadyProcessed")
         ELSE IF now <= payment.expires_at THEN PayErr("Unauthorized")
         ELSE PayOk(Unit,
                    set_payment(payment_id, [payment EXCEPT !.status = EXPIRED]),
                    events)

cancel_payment(payment_id) ==
    IF ~has_payment(payment_id) THEN PayErr("PaymentNotFound")
    ELSE LET payment == payments[payment_id] IN
         IF payment.status # PENDING THEN PayErr("PaymentAlreadyProcessed")
         ELSE IF now <= payment.expires_at THEN PayErr("Unauthorized")
         ELSE PayOk(Unit,
                    set_payment(payment_id, [payment EXCEPT !.status = EXPIRED]),
                    publish("CANCELLED", payment_id))

\* One invocation of PaymentProcessor on payment_id: commit its writes, record
\* the call (its other arguments are the step's choice and are not recorded).
PayInvoke(op, payment_id, out) ==
    /\ payments' = out.payments
    /\ events' = out.events
    /\ call' = [op |-> op, arg |-> [payment_id |-> payment_id], ok |-> out.ok, err |-> out.err]
    /\ UNCHANGED << now, roles, admin, refundVars, merchantVars >>

CreatePayment ==
    \E id \in PaymentIds, m \in Merchants, a \in Amounts, c \in Currencies,
       d \in DepositAddresses, e \in ExpiryTimes :
        PayInvoke("create_payment", id, create_payment(id, m, a, c, d, e))

VerifyPayment ==
    \E id \in PaymentIds, h \in Hashes, p \in Payers, a \in Amounts :
        PayInvoke("verify_payment", id, verify_payment(id, h, p, a))

GetPayment ==
    \E id \in PaymentIds :
        PayInvoke("get_payment", id, get_payment(id))

CancelPayment ==
    \E id \in PaymentIds :
        PayInvoke("cancel_payment", id, cancel_payment(id))

\* The host ledger closes: its timestamp advances.
Tick ==
    /\ now < MaxTime
    /\ now' = now + 1
    /\ call' = [op |-> "tick", arg |-> Unit, ok |-> TRUE, err |-> ""]
    /\ UNCHANGED << payments, events, roles, admin, refundVars, merchantVars >>

\* ---------------------------------------------------------- AccessControl

\* role_admin, role_oracle, role_settlement_operator
ROLE_ADMIN == "ADMIN"
ROLE_ORACLE == "ORACLE"
ROLE_SETTLEMENT_OPERATOR == "SETTLEMENT_OPERATOR"
RoleNames == {ROLE_ADMIN, ROLE_ORACLE, ROLE_SETTLEMENT_OPERATOR}

\* What an invocation of AccessControl yields: its result and the role
\* grants and admin it leaves.
AcOk(ret, rs, ad) == [ok |-> TRUE, err |-> "", ret |-> ret, roles |-> rs, admin |-> ad]
AcErr(e) == [ok |-> FALSE, err |-> e, ret |-> Unit, roles |-> roles, admin |-> admin]

\* storage get(Role(role, account)).unwrap_or(false)
has_role(role, account) == << role, account >> \in roles

\* storage set(Role(role, account), true), on the role grants rs
grant_role_internal(rs, role, account) == rs \cup {<< role, account >>}

\* storage remove(Role(role, account)), on the role grants rs
revoke_role_internal(rs, role, account) == rs \ {<< role, account >>}

initialize(new_admin) ==
    AcOk(Unit, grant_role_internal(roles, ROLE_ADMIN, new_admin), Some(new_admin))

\* Faulty variant of grant_role, against which C12 is tested: the existing
\* grant is looked up before the caller's ADMIN role.
grant_role_duplicate_first(caller, role, account) ==
    IF has_role(role, account) THEN AcErr("RoleAlreadyGranted")
    ELSE IF ~has_role(ROLE_ADMIN, caller) THEN AcErr("Unauthorized")
    ELSE AcOk(Unit, grant_role_internal(roles, role, account), admin)

grant_role(caller, role, account) ==
    IF ~has_role(ROLE_ADMIN, caller) THEN AcErr("Unauthorized")
    ELSE IF has_role(role, account) THEN AcErr("RoleAlreadyGranted")
    ELSE AcOk(Unit, grant_role_internal(roles, role, account), admin)

\* Faulty variant of revoke_role, against which C13 is tested: every grant of
\* the account is removed, not only the one of the given role.
revoke_role_all_roles(caller, role, account) ==
    IF ~has_role(ROLE_ADMIN, caller) THEN AcErr("Unauthorized")
    ELSE IF ~has_role(role, account) THEN AcErr("RoleNotGranted")
    ELSE AcOk(Unit, {g \in roles : g[2] # account}, admin)

revoke_role(caller, role, account) ==
    IF ~has_role(ROLE_ADMIN, caller) THEN AcErr("Unauthorized")
    ELSE IF ~has_role(role, account) THEN AcErr("RoleNotGranted")
    ELSE AcOk(Unit, revoke_role_internal(roles, role, account), admin)

\* Faulty variant of renounce_role, against which C10 is tested: the grant is
\* looked up before the ADMIN guard, so a non-holder gets RoleNotGranted.
renounce_role_grant_first(account, role) ==
    IF ~has_role(role, account) THEN AcErr("RoleNotGranted")
    ELSE IF role = ROLE_ADMIN THEN AcErr("CannotRenounceAdmin")
    ELSE AcOk(Unit, revoke_role_internal(roles, role, account), admin)

renounce_role(account, role) ==
    IF role = ROLE_ADMIN THEN AcErr("CannotRenounceAdmin")
    ELSE IF ~has_role(role, account) THEN AcErr("RoleNotGranted")
    ELSE AcOk(Unit, revoke_role_internal(roles, role, account), admin)

\* Faulty variant of transfer_admin, against which C8 is tested: the previous
\* admin's ADMIN grant is not revoked.
transfer_admin_keeps_old(current_admin, new_admin) ==
    IF ~has_role(ROLE_ADMIN, current_admin) THEN AcErr("Unauthorized")
    ELSE AcOk(Unit, grant_role_internal(roles, ROLE_ADMIN, new_admin), Some(new_admin))

\* Faulty variant of transfer_admin, against which C23 is tested: the new
\* admin is granted ADMIN before the current one is revoked.
transfer_admin_grant_first(current_admin, new_admin) ==
    IF ~has_role(ROLE_ADMIN, current_admin) THEN AcErr("Unauthorized")
    ELSE AcOk(Unit,
              revoke_role_internal(grant_role_internal(roles, ROLE_ADMIN, new_admin),
                                   ROLE_ADMIN, current_admin),
              Some(new_admin))

transfer_admin(current_admin, new_admin) ==
    IF ~has_role(ROLE_ADMIN, current_admin) THEN AcErr("Unauthorized")
    ELSE AcOk(Unit,
              grant_role_internal(revoke_role_internal(roles, ROLE_ADMIN, current_admin),
                                  ROLE_ADMIN, new_admin),
              Some(new_admin))

get_admin == AcOk(admin, roles, admin)

\* One invocation of AccessControl: commit its writes, record the call.
AcInvoke(op, arg, out) ==
    /\ roles' = out.roles
    /\ admin' = out.admin
    /\ call' = [op |-> op, arg |-> arg, ok |-> out.ok, err |-> out.err]
    /\ UNCHANGED << payments, events, now, refundVars, merchantVars >>

Initialize ==
    \E a \in Accounts :
        AcInvoke("initialize", [admin |-> a], initialize(a))

GrantRole ==
    \E c \in Accounts, r \in RoleNames, a \in Accounts :
        AcInvoke("grant_role", [admin |-> c, role |-> r, account |-> a], grant_role(c, r, a))

RevokeRole ==
    \E c \in Accounts, r \in RoleNames, a \in Accounts :
        AcInvoke("revoke_role", [admin |-> c, role |-> r, account |-> a], revoke_role(c, r, a))

RenounceRole ==
    \E a \in Accounts, r \in RoleNames :
        AcInvoke("renounce_role", [account |-> a, role |-> r], renounce_role(a, r))

TransferAdmin ==
    \E a \in Accounts, b \in Accounts :
        AcInvoke("transfer_admin", [current_admin |-> a, new_admin |-> b], transfer_admin(a, b))

GetAdmin ==
    AcInvoke("get_admin", Unit, get_admin)

\* ---------------------------------------------------------- RefundManager
\* RefundManager keeps its roles in the AccessControl storage of its own
\* contract instance (roles, admin) and its refunds in refunds,
\* payment_refunds and refund_counter.

\* The inputs the RefundManager is driven with.
RefundPaymentIds == {"p1", "p2"}
RefundAmounts == {0, 1}
Reasons == {"defect"}
Requesters == {"r1"}
RefundAdmins == {"a1"}
Operators == {"a2"}
OperatorRoles == {ROLE_ORACLE, ROLE_SETTLEMENT_OPERATOR}
\* the ids process_refund and get_refund are called with: the first two ids
\* and an id never issued
RefundIdInputs == {"refund_1", "refund_2", "refund_0"}

\* create_refund is called while fewer than MaxRefunds refunds were created;
\* where the end of the literal id table is explored, fewer than ManyRefunds.
MaxRefunds == 3
ManyRefunds == 12

REFUND_PENDING == "Pending"
REFUND_APPROVED == "Approved"
REFUND_COMPLETED == "Completed"
REFUND_REJECTED == "Rejected"
RefundStatus == {REFUND_PENDING, REFUND_APPROVED, REFUND_COMPLETED, REFUND_REJECTED}

\* What an invocation of RefundManager yields: its result and the refund
\* store, index and counter it leaves.
RfOk(ret, rf, idx, ctr) ==
    [ok |-> TRUE, err |-> "", ret |-> ret,
     refunds |-> rf, payment_refunds |-> idx, refund_counter |-> ctr]
RfErr(e) ==
    [ok |-> FALSE, err |-> e, ret |-> Unit,
     refunds |-> refunds, payment_refunds |-> payment_refunds,
     refund_counter |-> refund_counter]

\* Faulty variant of get_next_refund_id, against which C26 is tested: the
\* counter advances by two.
get_next_refund_id_by_two == refund_counter + 2

\* get_next_refund_id: the incremented counter, which create_refund stores.
get_next_refund_id == refund_counter + 1

\* the `match counter` of create_refund: ten literal ids and one fallback
refund_id_of(counter) ==
    CASE counter = 1 -> "refund_1"
      [] counter = 2 -> "refund_2"
      [] counter = 3 -> "refund_3"
      [] counter = 4 -> "refund_4"
      [] counter = 5 -> "refund_5"
      [] counter = 6 -> "refund_6"
      [] counter = 7 -> "refund_7"
      [] counter = 8 -> "refund_8"
      [] counter = 9 -> "refund_9"
      [] counter = 10 -> "refund_10"
      [] OTHER -> "refund_n"

\* storage get(DataKey::Refund(refund_id)): None when the key is not stored
get_refund_internal(refund_id) ==
    IF refund_id \in DOMAIN refunds THEN Some(refunds[refund_id]) ELSE NoneVal

\* storage get(DataKey::PaymentRefunds(payment_id)), empty when not stored
get_payment_refunds_internal(payment_id) ==
    IF payment_id \in DOMAIN payment_refunds THEN payment_refunds[payment_id] ELSE << >>

\* storage set(DataKey::Refund(refund_id), &refund)
set_refund(refund_id, refund) ==
    [x \in (DOMAIN refunds) \cup {refund_id} |-> IF x = refund_id THEN refund ELSE refunds[x]]

\* storage set(DataKey::PaymentRefunds(payment_id), &ids)
set_payment_refunds(payment_id, ids) ==
    [x \in (DOMAIN payment_refunds) \cup {payment_id} |->
        IF x = payment_id THEN ids ELSE payment_refunds[x]]

\* the Refund record create_refund builds
new_refund(refund_id, payment_id, refund_amount, reason, requester) ==
    [refund_id |-> refund_id,
     payment_id |-> payment_id,
     amount |-> refund_amount,
     reason |-> reason,
     status |-> REFUND_PENDING,
     created_at |-> now,
     processed_at |-> NoneVal,
     requester |-> requester]

\* Faulty variant of create_refund, against which C18 is tested: the refund id
\* is allocated before the amount is checked.
create_refund_allocates_first(payment_id, refund_amount, reason, requester) ==
    LET counter == get_next_refund_id
        refund_id == refund_id_of(counter)
        refund == new_refund(refund_id, payment_id, refund_amount, reason, requester)
        ids == Append(get_payment_refunds_internal(payment_id), refund_id)
    IN
    IF refund_amount <= 0 THEN [RfErr("InvalidAmount") EXCEPT !.refund_counter = counter]
    ELSE RfOk(refund_id, set_refund(refund_id, refund),
              set_payment_refunds(payment_id, ids), counter)

create_refund(payment_id, refund_amount, reason, requester) ==
    IF refund_amount <= 0 THEN RfErr("InvalidAmount")
    ELSE LET counter == get_next_refund_id
             refund_id == refund_id_of(counter)
             refund == new_refund(refund_id, payment_id, refund_amount, reason, requester)
             ids == Append(get_payment_refunds_internal(payment_id), refund_id)
         IN RfOk(refund_id, set_refund(refund_id, refund),
                 set_payment_refunds(payment_id, ids), counter)

\* Faulty variants of process_refund, against which C11 and C17 are tested.
\* (1) the refund is looked up before the operator's roles.
process_refund_lookup_first(operator, refund_id) ==
    LET has_settlement == has_role(ROLE_SETTLEMENT_OPERATOR, operator)
        has_oracle == has_role(ROLE_ORACLE, operator)
        found == get_refund_internal(refund_id)
    IN
    IF found = NoneVal THEN RfErr("RefundNotFound")
    ELSE IF ~has_settlement /\ ~has_oracle THEN RfErr("Unauthorized")
    ELSE IF found[1].status # REFUND_PENDING THEN RfErr("RefundAlreadyProcessed")
    ELSE RfOk(Unit,
              set_refund(refund_id, [found[1] EXCEPT !.status = REFUND_COMPLETED,
                                                     !.processed_at = Some(now)]),
              payment_refunds, refund_counter)

\* (2) the refund is marked Approved instead of Completed.
process_refund_approves(operator, refund_id) ==
    LET has_settlement == has_role(ROLE_SETTLEMENT_OPERATOR, operator)
        has_oracle == has_role(ROLE_ORACLE, operator)
        found == get_refund_internal(refund_id)
    IN
    IF ~has_settlement /\ ~has_oracle THEN RfErr("Unauthorized")
    ELSE IF found = NoneVal THEN RfErr("RefundNotFound")
    ELSE IF found[1].status # REFUND_PENDING THEN RfErr("RefundAlreadyProcessed")
    ELSE RfOk(Unit,
              set_refund(refund_id, [found[1] EXCEPT !.status = REFUND_APPROVED,
                                                     !.processed_at = Some(now)]),
              payment_refunds, refund_counter)

process_refund(operator, refund_id) ==
    LET has_settlement == has_role(ROLE_SETTLEMENT_OPERATOR, operator)
        has_oracle == has_role(ROLE_ORACLE, operator)
        found == get_refund_internal(refund_id)
    IN
    IF ~has_settlement /\ ~has_oracle THEN RfErr("Unauthorized")
    ELSE IF found = NoneVal THEN RfErr("RefundNotFound")
    ELSE IF found[1].status # REFUND_PENDING THEN RfErr("RefundAlreadyProcessed")
    ELSE RfOk(Unit,
              set_refund(refund_id, [found[1] EXCEPT !.status = REFUND_COMPLETED,
                                                     !.processed_at = Some(now)]),
              payment_refunds, refund_counter)

get_refund(refund_id) ==
    LET found == get_refund_internal(refund_id) IN
    IF found = NoneVal THEN RfErr("RefundNotFound")
    ELSE RfOk(found[1], refunds, payment_refunds, refund_counter)

\* the records of the ids of PaymentRefunds[payment_id] that resolve, in order
get_payment_refunds(payment_id) ==
    LET refund_ids == get_payment_refunds_internal(payment_id)
        resolved == SelectSeq(refund_ids, LAMBDA x : get_refund_internal(x) # NoneVal)
    IN RfOk([i \in 1..Len(resolved) |-> refunds[resolved[i]]],
            refunds, payment_refunds, refund_counter)

\* RefundManager's role operations: the AccessControl operation, with every
\* error mapped to Error::AccessControlError.
map_err(out) == IF out.ok THEN out ELSE [out EXCEPT !.err = "AccessControlError"]

\* One invocation of a refund operation: commit its writes, record the call.
RfInvoke(op, arg, out) ==
    /\ refunds' = out.refunds
    /\ payment_refunds' = out.payment_refunds
    /\ refund_counter' = out.refund_counter
    /\ call' = [op |-> op, arg |-> arg, ok |-> out.ok, err |-> out.err]
    /\ UNCHANGED << payments, events, now, roles, admin, merchantVars >>

\* create_refund with payment ids from P, while fewer than max refunds exist.
CreateRefundIn(P, max) ==
    /\ refund_counter < max
    /\ \E p \in P, a \in RefundAmounts, r \in Reasons, q \in Requesters :
          LET out == create_refund(p, a, r, q) IN
          /\ RfInvoke("create_refund", [payment_id |-> p], out)
          /\ issued' = IF out.ok
                       THEN Append(issued, [refund_id |-> out.ret, payment_id |-> p])
                       ELSE issued

\* process_refund by an operator from O on a refund id from I.
ProcessRefundIn(O, I) ==
    \E o \in O, id \in I :
        /\ RfInvoke("process_refund", [operator |-> o, refund_id |-> id], process_refund(o, id))
        /\ UNCHANGED issued

GetRefundIn(I) ==
    \E id \in I :
        /\ RfInvoke("get_refund", [refund_id |-> id], get_refund(id))
        /\ UNCHANGED issued

\* grant_role and revoke_role by an admin from RefundAdmins, of a role from R
\* to an account from Operators.
RefundGrantRoleIn(R) ==
    \E c \in RefundAdmins, r \in R, a \in Operators :
        AcInvoke("grant_role", [admin |-> c, role |-> r, account |-> a],
                 map_err(grant_role(c, r, a)))

RefundRevokeRoleIn(R) ==
    \E c \in RefundAdmins, r \in R, a \in Operators :
        AcInvoke("revoke_role", [admin |-> c, role |-> r, account |-> a],
                 map_err(revoke_role(c, r, a)))

CreateRefund == CreateRefundIn(RefundPaymentIds, MaxRefunds)

ProcessRefund == ProcessRefundIn(RefundAdmins \cup Operators, RefundIdInputs)

GetRefund == GetRefundIn(RefundIdInputs)

GetPaymentRefunds ==
    \E p \in RefundPaymentIds :
        /\ RfInvoke("get_payment_refunds", [payment_id |-> p], get_payment_refunds(p))
        /\ UNCHANGED issued

RefundInitialize ==
    \E a \in RefundAdmins :
        AcInvoke("initialize", [admin |-> a], initialize(a))

RefundGrantRole == RefundGrantRoleIn(OperatorRoles)

RefundRevokeRole == RefundRevokeRoleIn(OperatorRoles)

\* The same operations past the end of the literal id table: up to
\* ManyRefunds refunds, one operator role, and the fallback id processed.
CreateManyRefunds == CreateRefundIn(RefundPaymentIds, ManyRefunds)

GrantOracle == RefundGrantRoleIn({ROLE_ORACLE})

ProcessFallbackRefund == ProcessRefundIn(Operators, {"refund_n"})

GetFallbackRefund == GetRefundIn({"refund_n"})

\* ------------------------------------------------------- MerchantRegistry
\* Address::require_auth is resolved by the host before the body runs: an
\* invocation that reaches the body is made by the address it names.

\* The inputs the MerchantRegistry is driven with.
MerchantIds == {"m1", "m2"}
BusinessNames == {"b1", "b2"}
SettlementCurrencies == {"USDC"}
RegistryAdmins == {"a1", "a2"}
\* Option<String> and Option<bool> arguments of update_merchant
OptionOf(S) == {NoneVal} \cup {Some(v) : v \in S}

\* What an invocation of MerchantRegistry yields: its result and the merchant
\* store and admin it leaves.
MrOk(ret, ms, ad) == [ok |-> TRUE, err |-> "", ret |-> ret, merchants |-> ms, registry_admin |-> ad]
MrErr(e) ==
    [ok |-> FALSE, err |-> e, ret |-> Unit, merchants |-> merchants,
     registry_admin |-> registry_admin]

\* storage get(DataKey::Merchant(merchant_id)): None when the key is not stored
get_merchant_internal(merchant_id) ==
    IF merchant_id \in DOMAIN merchants THEN Some(merchants[merchant_id]) ELSE NoneVal

\* storage set(DataKey::Merchant(merchant_id), &merchant)
set_merchant(merchant_id, merchant) ==
    [x \in (DOMAIN merchants) \cup {merchant_id} |->
        IF x = merchant_id THEN merchant ELSE merchants[x]]

\* Faulty variant of MerchantRegistry::initialize, against which C19 is
\* tested: the stored admin is not looked at.
registry_initialize_unguarded(admin_address) ==
    MrOk(Unit, merchants, Some(admin_address))

\* MerchantRegistry::initialize
registry_initialize(admin_address) ==
    IF registry_admin # NoneVal THEN MrErr("AdminAlreadySet")
    ELSE MrOk(Unit, merchants, Some(admin_address))

\* Faulty variant of register_merchant, against which C21 is tested: the
\* stored merchant is not looked at, so a second registration resets it.
register_merchant_overwrites(merchant_id, business_name, settlement_currency) ==
    LET merchant == [merchant_id |-> merchant_id,
                     business_name |-> business_name,
                     settlement_currency |-> settlement_currency,
                     verified |-> FALSE,
                     active |-> TRUE,
                     created_at |-> now]
    IN MrOk(Unit, set_merchant(merchant_id, merchant), registry_admin)

register_merchant(merchant_id, business_name, settlement_currency) ==
    IF merchant_id \in DOMAIN merchants THEN MrErr("MerchantAlreadyExists")
    ELSE LET merchant == [merchant_id |-> merchant_id,
                          business_name |-> business_name,
                          settlement_currency |-> settlement_currency,
                          verified |-> FALSE,
                          active |-> TRUE,
                          created_at |-> now]
         IN MrOk(Unit, set_merchant(merchant_id, merchant), registry_admin)

\* Faulty variant of update_merchant, against which C22 is tested: an
\* unsupplied active flag is stored as true.
update_merchant_reactivates(merchant_id, business_name, settlement_currency, active) ==
    LET found == get_merchant_internal(merchant_id) IN
    IF found = NoneVal THEN MrErr("MerchantNotFound")
    ELSE LET m1 == IF business_name # NoneVal
                   THEN [found[1] EXCEPT !.business_name = business_name[1]]
                   ELSE found[1]
             m2 == IF settlement_currency # NoneVal
                   THEN [m1 EXCEPT !.settlement_currency = settlement_currency[1]]
                   ELSE m1
             m3 == IF active # NoneVal
                   THEN [m2 EXCEPT !.active = active[1]]
                   ELSE [m2 EXCEPT !.active = TRUE]
         IN MrOk(Unit, set_merchant(merchant_id, m3), registry_admin)

update_merchant(merchant_id, business_name, settlement_currency, active) ==
    LET found == get_merchant_internal(merchant_id) IN
    IF found = NoneVal THEN MrErr("MerchantNotFound")
    ELSE LET m1 == IF business_name # NoneVal
                   THEN [found[1] EXCEPT !.business_name = business_name[1]]
                   ELSE found[1]
             m2 == IF settlement_currency # NoneVal
                   THEN [m1 EXCEPT !.settlement_currency = settlement_currency[1]]
                   ELSE m1
             m3 == IF active # NoneVal
                   THEN [m2 EXCEPT !.active = active[1]]
                   ELSE m2
         IN MrOk(Unit, set_merchant(merchant_id, m3), registry_admin)

get_merchant(merchant_id) ==
    LET found == get_merchant_internal(merchant_id) IN
    IF found = NoneVal THEN MrErr("MerchantNotFound")
    ELSE MrOk(found[1], merchants, registry_admin)

\* Faulty variant of verify_merchant, against which C20 is tested: the
\* merchant is looked up before the admin is compared.
verify_merchant_lookup_first(admin_address, merchant_id) ==
    LET found == get_merchant_internal(merchant_id) IN
    IF found = NoneVal THEN MrErr("MerchantNotFound")
    ELSE IF registry_admin = NoneVal THEN MrErr("Unauthorized")
    ELSE IF admin_address # registry_admin[1] THEN MrErr("Unauthorized")
    ELSE MrOk(Unit, set_merchant(merchant_id, [found[1] EXCEPT !.verified = TRUE]),
              registry_admin)

verify_merchant(admin_address, merchant_id) ==
    LET found == get_merchant_internal(merchant_id) IN
    IF registry_admin = NoneVal THEN MrErr("Unauthorized")
    ELSE IF admin_address # registry_admin[1] THEN MrErr("Unauthorized")
    ELSE IF found = NoneVal THEN MrErr("MerchantNotFound")
    ELSE MrOk(Unit, set_merchant(merchant_id, [found[1] EXCEPT !.verified = TRUE]),
              registry_admin)

\* One invocation of MerchantRegistry: commit its writes, record the call.
MrInvoke(op, arg, out) ==
    /\ merchants' = out.merchants
    /\ registry_admin' = out.registry_admin
    /\ call' = [op |-> op, arg |-> arg, ok |-> out.ok, err |-> out.err]
    /\ UNCHANGED << payments, events, now, roles, admin, refundVars >>

RegistryInitialize ==
    \E a \in RegistryAdmins :
        MrInvoke("initialize", [admin |-> a], registry_initialize(a))

RegisterMerchant ==
    \E m \in MerchantIds, b \in BusinessNames, c \in SettlementCurrencies :
        MrInvoke("register_merchant", [merchant_id |-> m], register_merchant(m, b, c))

UpdateMerchant ==
    \E m \in MerchantIds, b \in OptionOf(BusinessNames), c \in OptionOf(SettlementCurrencies),
       a \in OptionOf(BOOLEAN) :
        MrInvoke("update_merchant", [merchant_id |-> m], update_merchant(m, b, c, a))

GetMerchant ==
    \E m \in MerchantIds :
        MrInvoke("get_merchant", [merchant_id |-> m], get_merchant(m))

VerifyMerchant ==
    \E a \in RegistryAdmins, m \in MerchantIds :
        MrInvoke("verify_merchant", [admin |-> a, merchant_id |-> m], verify_merchant(a, m))

\* ---------------------------------------------------------- specification

Init ==
    /\ payments = << >>
    /\ events = [id \in PaymentIds |-> << >>]
    /\ now = 0
    /\ roles = {}
    /\ admin = NoneVal
    /\ refunds = << >>
    /\ payment_refunds = << >>
    /\ refund_counter = 0
    /\ issued = << >>
    /\ merchants = << >>
    /\ registry_admin = NoneVal
    /\ call = [op |-> "deploy", arg |-> Unit, ok |-> TRUE, err |-> ""]

PaymentNext ==
    \/ CreatePayment
    \/ VerifyPayment
    \/ GetPayment
    \/ CancelPayment
    \/ Tick

AccessNext ==
    \/ Initialize
    \/ GrantRole
    \/ RevokeRole
    \/ RenounceRole
    \/ TransferAdmin
    \/ GetAdmin

Next == PaymentNext \/ AccessNext

\* Both contracts side by side.
Spec == Init /\ [][Next]_vars

\* The PaymentProcessor contract on its own storage.
SpecPayment == Init /\ [][PaymentNext]_vars

\* The AccessControl layer on its own storage.
SpecAccess == Init /\ [][AccessNext]_vars

RefundNext ==
    \/ RefundInitialize
    \/ RefundGrantRole
    \/ RefundRevokeRole
    \/ CreateRefund
    \/ ProcessRefund
    \/ GetRefund
    \/ GetPaymentRefunds

\* The RefundManager contract on its own storage.
SpecRefund == Init /\ [][RefundNext]_vars

ManyRefundsNext ==
    \/ RefundInitialize
    \/ GrantOracle
    \/ CreateManyRefunds
    \/ ProcessFallbackRefund
    \/ GetFallbackRefund
    \/ GetPaymentRefunds

\* The RefundManager contract driven past the end of the literal id table.
SpecManyRefunds == Init /\ [][ManyRefundsNext]_vars

MerchantNext ==
    \/ RegistryInitialize
    \/ RegisterMerchant
    \/ UpdateMerchant
    \/ GetMerchant
    \/ VerifyMerchant
    \/ Tick

\* The MerchantRegistry contract on its own storage.
SpecMerchant == Init /\ [][MerchantNext]_vars

\* Each contract instance has its own storage. A behaviour of SpecContracts
\* exercises one of them: a contract takes steps only while the storage of the
\* others is as deployed, the RefundManager only while the role grants are
\* ones its own role operations make, and AccessControl, which never reads the
\* ledger time, at the initial time.
PaymentUntouched == payments = << >>
AccessUntouched == roles = {} /\ admin = NoneVal
RefundUntouched == refund_counter = 0
MerchantUntouched == merchants = << >> /\ registry_admin = NoneVal
RefundRoles ==
    /\ roles \subseteq (({ROLE_ADMIN} \X RefundAdmins) \cup (OperatorRoles \X Operators))
    /\ admin \in OptionOf(RefundAdmins)

ContractsNext ==
    \/ AccessUntouched /\ RefundUntouched /\ MerchantUntouched /\ PaymentNext
    \/ PaymentUntouched /\ RefundUntouched /\ MerchantUntouched /\ now = 0 /\ AccessNext
    \/ PaymentUntouched /\ MerchantUntouched /\ RefundRoles /\ RefundNext
    \/ PaymentUntouched /\ AccessUntouched /\ RefundUntouched /\ MerchantNext

\* The four contracts, one exercised at a time.
SpecContracts == Init /\ [][ContractsNext]_vars

\* ------------------------------------------------------------------ claims

Terminal == {CONFIRMED, EXPIRED, FAILED}

\* The number of times topic was published for payment id.
Published(id, topic) == Cardinality({i \in DOMAIN events[id] : events[id][i] = topic})

\* C1: once a payment is Confirmed, Expired or Failed, no step (create_payment,
\* verify_payment, cancel_payment, get_payment with any arguments, or the clock
\* advancing) changes its status again, and the record stays stored.
C1_TerminalStatusIsFinal ==
    [][\A id \in DOMAIN payments :
          payments[id].status \in Terminal =>
              /\ id \in DOMAIN payments'
              /\ payments'[id].status = payments[id].status]_vars

\* C1 witness: a verify_payment or cancel_payment ran on a payment that was
\* already in a terminal status, at a later clock value than its creation.
C1_Witness ==
    /\ call.op \in {"verify_payment", "cancel_payment"}
    /\ call.err = "PaymentAlreadyProcessed"
    /\ payments[call.arg.payment_id].status \in Terminal
    /\ now > payments[call.arg.payment_id].created_at

\* C2: in every reachable state, verify_payment on a Pending, unexpired payment
\* with amount_received equal to the stored amount returns Ok(Confirmed) and
\* stores status Confirmed with the given payer_address and transaction_hash and
\* confirmed_at = now, and changes nothing else; VERIFIED was published at most
\* once per payment; and verify_payment and cancel_payment on a Confirmed
\* payment fail with PaymentAlreadyProcessed and write nothing.
C2_VerifyConfirmsOnce ==
    \A id \in DOMAIN payments :
        /\ Published(id, "VERIFIED") <= 1
        /\ \A h \in Hashes, p \in Payers, a \in Amounts :
              LET out == verify_payment(id, h, p, a) IN
              /\ (/\ payments[id].status = PENDING
                  /\ now <= payments[id].expires_at
                  /\ a = payments[id].amount)
                 => /\ out.ok
                    /\ out.ret = CONFIRMED
                    /\ out.payments = [payments EXCEPT ![id] =
                           [@ EXCEPT !.status = CONFIRMED,
                                     !.payer_address = Some(p),
                                     !.transaction_hash = Some(h),
                                     !.confirmed_at = Some(now)]]
              /\ payments[id].status = CONFIRMED
                 => /\ ~out.ok
                    /\ out.err = "PaymentAlreadyProcessed"
                    /\ out.payments = payments
                    /\ ~cancel_payment(id).ok
                    /\ cancel_payment(id).err = "PaymentAlreadyProcessed"
                    /\ cancel_payment(id).payments = payments

\* C2 witness: a payment was confirmed (VERIFIED published, payer recorded) and
\* a later verify_payment on it was refused.
C2_Witness ==
    /\ call.op = "verify_payment"
    /\ call.err = "PaymentAlreadyProcessed"
    /\ payments[call.arg.payment_id].status = CONFIRMED
    /\ payments[call.arg.payment_id].payer_address # NoneVal
    /\ Published(call.arg.payment_id, "VERIFIED") = 1

\* C3: in every reachable state, verify_payment on a Pending, unexpired payment
\* with amount_received different from the stored amount (above or below)
\* returns Ok(Failed), stores status Failed and nothing else; payer_address,
\* transaction_hash and confirmed_at stay unset.
C3_MismatchFails ==
    \A id \in DOMAIN payments, h \in Hashes, p \in Payers, a \in Amounts :
        (/\ payments[id].status = PENDING
         /\ now <= payments[id].expires_at
         /\ a # payments[id].amount)
        => LET out == verify_payment(id, h, p, a) IN
           /\ out.ok
           /\ out.ret = FAILED
           /\ out.payments = [payments EXCEPT ![id] = [@ EXCEPT !.status = FAILED]]
           /\ out.payments[id].payer_address = NoneVal
           /\ out.payments[id].transaction_hash = NoneVal
           /\ out.payments[id].confirmed_at = NoneVal

\* C3 witness: a verify_payment succeeded and left the payment Failed, with
\* nothing recorded about the payer.
C3_Witness ==
    /\ call.op = "verify_payment"
    /\ call.ok
    /\ payments[call.arg.payment_id].status = FAILED
    /\ payments[call.arg.payment_id].payer_address = NoneVal
    /\ Published(call.arg.payment_id, "FAILED") = 1

\* C4: in every reachable state, cancel_payment on a Pending payment fails and
\* writes nothing while now <= expires_at, and succeeds and stores Expired when
\* now > expires_at; on an Expired payment it fails with
\* PaymentAlreadyProcessed; CANCELLED was published at most once per payment.
C4_CancelOnlyAfterExpiryOnce ==
    \A id \in DOMAIN payments :
        LET out == cancel_payment(id) IN
        /\ (payments[id].status = PENDING /\ now <= payments[id].expires_at)
           => /\ ~out.ok
              /\ out.payments = payments
        /\ (payments[id].status = PENDING /\ now > payments[id].expires_at)
           => /\ out.ok
              /\ out.payments = [payments EXCEPT ![id] = [@ EXCEPT !.status = EXPIRED]]
        /\ payments[id].status = EXPIRED
           => /\ ~out.ok
              /\ out.err = "PaymentAlreadyProcessed"
              /\ out.payments = payments
        /\ Published(id, "CANCELLED") <= 1

\* C4 witness: a payment was cancelled after its expiry and a second
\* cancel_payment on it was refused.
C4_Witness ==
    /\ call.op = "cancel_payment"
    /\ call.err = "PaymentAlreadyProcessed"
    /\ payments[call.arg.payment_id].status = EXPIRED
    /\ Published(call.arg.payment_id, "CANCELLED") = 1

\* C5 (state part): verify_payment on a Pending payment with now > expires_at
\* fails with PaymentExpired for every amount_received and writes nothing.
C5_VerifyAfterExpiry ==
    \A id \in DOMAIN payments, h \in Hashes, p \in Payers, a \in Amounts :
        (payments[id].status = PENDING /\ now > payments[id].expires_at)
        => LET out == verify_payment(id, h, p, a) IN
           /\ ~out.ok
           /\ out.err = "PaymentExpired"
           /\ out.payments = payments
           /\ out.events = events

\* C5 (step part): no step takes a payment that is Pending past its expiry to
\* Confirmed or Failed, or changes any of its other fields.
C5_PendingPastExpiry ==
    \A id \in DOMAIN payments :
        (payments[id].status = PENDING /\ now > payments[id].expires_at)
        => /\ id \in DOMAIN payments'
           /\ payments'[id].status \in {PENDING, EXPIRED}
           /\ [payments'[id] EXCEPT !.status = PENDING] = payments[id]

\* C5: verify_payment on a Pending payment when now > expires_at fails with
\* PaymentExpired whatever amount_received is and changes nothing, so a payment
\* still Pending at expiry never becomes Confirmed or Failed.
C5_ExpiredNeverVerified == [] C5_VerifyAfterExpiry /\ [][C5_PendingPastExpiry]_vars

\* C5 witness: a verify_payment was refused as expired and the payment is
\* still Pending.
C5_Witness ==
    /\ call.op = "verify_payment"
    /\ call.err = "PaymentExpired"
    /\ payments[call.arg.payment_id].status = PENDING
    /\ now > payments[call.arg.payment_id].expires_at

\* C6: in every reachable state, create_payment with amount > 0 and a payment_id
\* that is already stored fails with PaymentAlreadyExists, whatever the stored
\* record's status, and leaves the store and the event stream as they were.
C6_DuplicateCreateRejected ==
    \A id \in DOMAIN payments, m \in Merchants, a \in Amounts, c \in Currencies,
       d \in DepositAddresses, e \in ExpiryTimes :
        a > 0 => LET out == create_payment(id, m, a, c, d, e) IN
                 /\ ~out.ok
                 /\ out.err = "PaymentAlreadyExists"
                 /\ out.payments = payments
                 /\ out.events = events

\* C6 witness: a create_payment was refused for the id of a Confirmed payment
\* while another payment was stored too.
C6_Witness ==
    /\ call.op = "create_payment"
    /\ call.err = "PaymentAlreadyExists"
    /\ payments[call.arg.payment_id].status = CONFIRMED
    /\ Cardinality(DOMAIN payments) = 2

\* C7: in every reachable state, create_payment succeeds exactly when
\* amount > 0, the id is non-empty and the id is not stored; it then stores the
\* record built from its arguments with status Pending, created_at = now and
\* payer_address, transaction_hash, confirmed_at unset, and returns it. Its
\* failures, in the order the code checks them: InvalidAmount when amount <= 0,
\* otherwise InvalidPaymentId when the id is empty. No stored record has an
\* empty id or a non-positive amount.
C7_CreateExactly ==
    /\ \A id \in PaymentIds, m \in Merchants, a \in Amounts, c \in Currencies,
          d \in DepositAddresses, e \in ExpiryTimes :
          LET out == create_payment(id, m, a, c, d, e)
              rec == [payment_id |-> id, merchant_id |-> m, amount |-> a,
                      currency |-> c, deposit_address |-> d, status |-> PENDING,
                      payer_address |-> NoneVal, transaction_hash |-> NoneVal,
                      created_at |-> now, confirmed_at |-> NoneVal, expires_at |-> e]
          IN
          /\ out.ok <=> (a > 0 /\ id # "" /\ id \notin DOMAIN payments)
          /\ out.ok => /\ DOMAIN out.payments = (DOMAIN payments) \cup {id}
                       /\ out.payments[id] = rec
                       /\ \A x \in DOMAIN payments : out.payments[x] = payments[x]
                       /\ out.ret = rec
          /\ a <= 0 => out.err = "InvalidAmount"
          /\ (a > 0 /\ id = "") => out.err = "InvalidPaymentId"
    /\ \A id \in DOMAIN payments :
          id # "" /\ payments[id].payment_id = id /\ payments[id].amount > 0

\* C7 witness: a payment was created at a clock value other than the initial one.
C7_Witness ==
    /\ call.op = "create_payment"
    /\ call.ok
    /\ payments[call.arg.payment_id].status = PENDING
    /\ payments[call.arg.payment_id].created_at = now
    /\ now > 0

\* C8 as stated: after every successful transfer_admin(a, b), b holds ADMIN, a
\* does not, and get_admin() returns b; transfer_admin fails with Unauthorized
\* and changes nothing when a does not hold ADMIN. Refuted by
\* transfer_admin(a, a), after which a holds ADMIN.
C8_AsStated ==
    [][call'.op = "transfer_admin" =>
          LET a == call'.arg.current_admin
              b == call'.arg.new_admin
          IN
          /\ call'.ok <=> has_role(ROLE_ADMIN, a)
          /\ call'.ok => /\ << ROLE_ADMIN, b >> \in roles'
                         /\ << ROLE_ADMIN, a >> \notin roles'
                         /\ admin' = Some(b)
          /\ ~call'.ok => /\ call'.err = "Unauthorized"
                          /\ roles' = roles
                          /\ admin' = admin]_vars

\* C8 (amended): after every successful transfer_admin(a, b), b holds ADMIN and
\* get_admin() returns b, and when a # b, a no longer holds ADMIN; no other role
\* grant changes; transfer_admin succeeds exactly when a holds ADMIN, and
\* otherwise fails with Unauthorized and changes nothing.
C8_TransferAdmin ==
    [][call'.op = "transfer_admin" =>
          LET a == call'.arg.current_admin
              b == call'.arg.new_admin
          IN
          /\ call'.ok <=> has_role(ROLE_ADMIN, a)
          /\ call'.ok => /\ << ROLE_ADMIN, b >> \in roles'
                         /\ a # b => << ROLE_ADMIN, a >> \notin roles'
                         /\ admin' = Some(b)
                         /\ roles' \ {<< ROLE_ADMIN, a >>, << ROLE_ADMIN, b >>}
                               = roles \ {<< ROLE_ADMIN, a >>, << ROLE_ADMIN, b >>}
          /\ ~call'.ok => /\ call'.err = "Unauthorized"
                          /\ roles' = roles
                          /\ admin' = admin]_vars

\* C8 witness: transfer_admin(a, b) with a # b succeeded: b holds ADMIN and is
\* the stored admin, a does not hold ADMIN.
C8_Witness ==
    /\ call.op = "transfer_admin"
    /\ call.ok
    /\ call.arg.current_admin # call.arg.new_admin
    /\ has_role(ROLE_ADMIN, call.arg.new_admin)
    /\ ~has_role(ROLE_ADMIN, call.arg.current_admin)
    /\ admin = Some(call.arg.new_admin)

\* C9: in every state after initialize, exactly one admin identity is stored
\* and the account get_admin() returns holds the ADMIN role. Refuted by the
\* code: revoke_role(admin, ADMIN, admin) removes the stored admin's grant.
C9_StoredAdminHoldsAdmin ==
    admin # NoneVal => (Len(admin) = 1 /\ has_role(ROLE_ADMIN, admin[1]))

\* C10: renounce_role with role ADMIN fails with CannotRenounceAdmin for every
\* account, holding ADMIN or not, in every state, and leaves the role grants
\* and the stored admin unchanged.
C10_CannotRenounceAdmin ==
    [][(call'.op = "renounce_role" /\ call'.arg.role = ROLE_ADMIN) =>
          /\ ~call'.ok
          /\ call'.err = "CannotRenounceAdmin"
          /\ roles' = roles
          /\ admin' = admin]_vars

\* C10 witness: the stored admin, holding ADMIN, tried to renounce it and was
\* refused, while another account holds no ADMIN grant.
C10_Witness ==
    /\ call.op = "renounce_role"
    /\ call.arg.role = ROLE_ADMIN
    /\ call.err = "CannotRenounceAdmin"
    /\ admin = Some(call.arg.account)
    /\ has_role(ROLE_ADMIN, call.arg.account)
    /\ \E x \in Accounts : ~has_role(ROLE_ADMIN, x)

\* C11 (state part): in every reachable state, process_refund by any account on
\* any refund id, stored or not, succeeds only if the account holds
\* SETTLEMENT_OPERATOR or ORACLE; an account holding neither gets Unauthorized
\* and refunds, index and counter stay as they are.
C11_OperatorRoleRequired ==
    \A o \in Accounts, id \in RefundIdInputs \cup DOMAIN refunds :
        LET out == process_refund(o, id)
            holds == has_role(ROLE_SETTLEMENT_OPERATOR, o) \/ has_role(ROLE_ORACLE, o)
        IN
        /\ out.ok => holds
        /\ ~holds => /\ ~out.ok
                     /\ out.err = "Unauthorized"
                     /\ out.refunds = refunds
                     /\ out.payment_refunds = payment_refunds
                     /\ out.refund_counter = refund_counter

\* C11 (step part): when a revoke_role has left an account with neither
\* operator role, a process_refund by that account as the next call fails with
\* Unauthorized and changes no refund.
C11_RevokedOperatorRefused ==
    (/\ call.op = "revoke_role"
     /\ call.ok
     /\ ~has_role(ROLE_SETTLEMENT_OPERATOR, call.arg.account)
     /\ ~has_role(ROLE_ORACLE, call.arg.account)
     /\ call'.op = "process_refund"
     /\ call'.arg.operator = call.arg.account)
    => /\ ~call'.ok
       /\ call'.err = "Unauthorized"
       /\ refunds' = refunds

\* C11: process_refund(operator, refund_id) succeeds only if operator holds
\* SETTLEMENT_OPERATOR or ORACLE at the time of the call; an operator holding
\* neither gets Unauthorized, also for a refund id that is not stored, and the
\* refunds are unchanged; after its roles were granted and revoked, an
\* account's next process_refund fails with Unauthorized.
C11_ProcessRefundAuthorized ==
    [] C11_OperatorRoleRequired /\ [][C11_RevokedOperatorRefused]_vars

\* C11 witness: an account that holds no operator role was refused on a Pending
\* refund, while another refund is Completed: the account had a role, used it,
\* and lost it.
C11_Witness ==
    /\ call.op = "process_refund"
    /\ call.err = "Unauthorized"
    /\ call.arg.operator \in Operators
    /\ call.arg.refund_id \in DOMAIN refunds
    /\ refunds[call.arg.refund_id].status = REFUND_PENDING
    /\ \E id \in DOMAIN refunds : refunds[id].status = REFUND_COMPLETED

\* C12: every grant_role(caller, role, account) fails with Unauthorized when
\* caller does not hold ADMIN, whether or not account holds role; fails with
\* RoleAlreadyGranted when caller holds ADMIN and account already holds role;
\* and otherwise succeeds, adds exactly the grant (role, account) and leaves
\* every other grant and the stored admin as they were. A failed grant_role
\* changes nothing.
C12_GrantRole ==
    [][call'.op = "grant_role" =>
          LET c == call'.arg.admin
              r == call'.arg.role
              a == call'.arg.account
          IN
          /\ ~has_role(ROLE_ADMIN, c) => (~call'.ok /\ call'.err = "Unauthorized")
          /\ (has_role(ROLE_ADMIN, c) /\ has_role(r, a))
             => (~call'.ok /\ call'.err = "RoleAlreadyGranted")
          /\ (has_role(ROLE_ADMIN, c) /\ ~has_role(r, a))
             => /\ call'.ok
                /\ << r, a >> \in roles'
                /\ roles' \ {<< r, a >>} = roles
                /\ admin' = admin
          /\ ~call'.ok => (roles' = roles /\ admin' = admin)]_vars

\* C12 witness: an admin granted a role to another account, which now holds
\* it, while other grants exist.
C12_Witness ==
    /\ call.op = "grant_role"
    /\ call.ok
    /\ call.arg.admin # call.arg.account
    /\ has_role(call.arg.role, call.arg.account)
    /\ Cardinality(roles) >= 3

\* C13: every revoke_role(caller, role, account) fails with Unauthorized when
\* caller does not hold ADMIN; fails with RoleNotGranted when caller holds
\* ADMIN and account does not hold role; and otherwise succeeds, removes
\* exactly the grant (role, account) and leaves every other grant and the
\* stored admin as they were. A successful grant_role adds a grant that was
\* not there, so a successful revoke_role of the same (role, account) as the
\* next call leaves the role grants as they were before the grant.
C13_RevokeRole ==
    [][/\ call'.op = "revoke_role" =>
             LET c == call'.arg.admin
                 r == call'.arg.role
                 a == call'.arg.account
             IN
             /\ ~has_role(ROLE_ADMIN, c) => (~call'.ok /\ call'.err = "Unauthorized")
             /\ (has_role(ROLE_ADMIN, c) /\ ~has_role(r, a))
                => (~call'.ok /\ call'.err = "RoleNotGranted")
             /\ (has_role(ROLE_ADMIN, c) /\ has_role(r, a))
                => /\ call'.ok
                   /\ << r, a >> \notin roles'
                   /\ roles' \cup {<< r, a >>} = roles
                   /\ admin' = admin
             /\ ~call'.ok => (roles' = roles /\ admin' = admin)
       /\ (call'.op = "grant_role" /\ call'.ok)
             => /\ << call'.arg.role, call'.arg.account >> \notin roles
                /\ roles' = roles \cup {<< call'.arg.role, call'.arg.account >>}
       /\ (/\ call.op = "grant_role"
           /\ call.ok
           /\ call'.op = "revoke_role"
           /\ call'.ok
           /\ call'.arg.role = call.arg.role
           /\ call'.arg.account = call.arg.account)
             => roles' = roles \ {<< call.arg.role, call.arg.account >>}]_vars

\* C13 witness: an admin revoked a role of an account that still holds another
\* role; the revoked grant is gone.
C13_Witness ==
    /\ call.op = "revoke_role"
    /\ call.ok
    /\ ~has_role(call.arg.role, call.arg.account)
    /\ \E r \in RoleNames : has_role(r, call.arg.account)
    /\ Cardinality(roles) >= 2

\* C14: once a refund id resolves to a record with status Completed, no step
\* changes that record, and process_refund on it by an account with an
\* operator role fails with RefundAlreadyProcessed. Refuted by the code: past
\* the tenth refund every create_refund writes the record of id "refund_n"
\* (C15), so a Completed refund is replaced by a Pending one.
C14_CompletedIsFinal ==
    /\ [](\A id \in DOMAIN refunds, o \in Accounts :
             (/\ refunds[id].status = REFUND_COMPLETED
              /\ (has_role(ROLE_SETTLEMENT_OPERATOR, o) \/ has_role(ROLE_ORACLE, o)))
             => /\ ~process_refund(o, id).ok
                /\ process_refund(o, id).err = "RefundAlreadyProcessed")
    /\ [][\A id \in DOMAIN refunds :
             refunds[id].status = REFUND_COMPLETED
             => (id \in DOMAIN refunds' /\ refunds'[id] = refunds[id])]_vars

\* C15: the ids returned by the successful create_refund calls are pairwise
\* different. Refuted by the code: the eleventh and the twelfth refund both get
\* the id "refund_n".
C15_RefundIdsUnique ==
    \A i \in DOMAIN issued, j \in DOMAIN issued :
        i # j => issued[i].refund_id # issued[j].refund_id

\* the number of refunds created for payment id p
CreatedFor(p) == Cardinality({i \in DOMAIN issued : issued[i].payment_id = p})

\* C16: PaymentRefunds[payment_id] only grows at its end: a successful
\* create_refund for payment_id appends the id it returns and no step changes
\* the entries already there; get_payment_refunds(payment_id) returns as many
\* records as refunds were created for the payment, and for every refund
\* created for it a record with that refund's id and that payment id. Refuted
\* by the code: past the tenth refund the ids collide (C15), and the record a
\* payment's "refund_n" entry resolves to can be a refund of another payment.
C16_PaymentRefundsAppendOnly ==
    /\ [](\A p \in RefundPaymentIds :
             LET ret == get_payment_refunds(p).ret IN
             /\ Len(ret) = CreatedFor(p)
             /\ \A i \in DOMAIN issued :
                   issued[i].payment_id = p
                   => \E j \in DOMAIN ret : /\ ret[j].refund_id = issued[i].refund_id
                                            /\ ret[j].payment_id = p)
    /\ [][\A p \in RefundPaymentIds :
             LET before == get_payment_refunds_internal(p)
                 after == IF p \in DOMAIN payment_refunds' THEN payment_refunds'[p] ELSE << >>
             IN
             /\ Len(after) >= Len(before)
             /\ SubSeq(after, 1, Len(before)) = before
             /\ (call'.op = "create_refund" /\ call'.ok /\ call'.arg.payment_id = p)
                => after = Append(before, issued'[Len(issued')].refund_id)
             /\ ~(call'.op = "create_refund" /\ call'.ok /\ call'.arg.payment_id = p)
                => after = before]_vars

\* C17: in every reachable state, every stored refund has status Pending or
\* Completed, never Approved or Rejected.
C17_OnlyPendingOrCompleted ==
    \A id \in DOMAIN refunds :
        refunds[id].status \in {REFUND_PENDING, REFUND_COMPLETED}

\* C17 witness: past the tenth refund, the fallback refund was processed and is
\* Completed while earlier refunds are Pending.
C17_Witness ==
    /\ refund_counter > 10
    /\ "refund_n" \in DOMAIN refunds
    /\ refunds["refund_n"].status = REFUND_COMPLETED
    /\ refunds["refund_1"].status = REFUND_PENDING
    /\ call.op = "process_refund"
    /\ call.ok

\* C18: every invocation of AccessControl, PaymentProcessor, RefundManager or
\* MerchantRegistry that returns a failure leaves all storage as it was (role
\* grants, admin, payments, refunds, refund index, refund counter, merchants,
\* registry admin) and publishes no event.
C18_FailureChangesNothing ==
    [][~call'.ok =>
          UNCHANGED << payments, events, roles, admin, refunds, payment_refunds,
                       refund_counter, merchants, registry_admin >>]_vars

\* C18 witness: a create_refund failed after a refund had been created; the
\* counter still counts one refund.
C18_Witness ==
    /\ call.op = "create_refund"
    /\ ~call.ok
    /\ call.err = "InvalidAmount"
    /\ refund_counter = 1
    /\ DOMAIN refunds = {"refund_1"}

\* C19 (state part): MerchantRegistry initialize succeeds exactly when no admin
\* is stored, and then stores its argument; when an admin is stored it fails
\* with AdminAlreadySet and changes nothing.
C19_InitializeGuarded ==
    \A a \in Accounts :
        LET out == registry_initialize(a) IN
        /\ out.ok <=> registry_admin = NoneVal
        /\ out.ok => (out.registry_admin = Some(a) /\ out.merchants = merchants)
        /\ ~out.ok => /\ out.err = "AdminAlreadySet"
                      /\ out.registry_admin = registry_admin
                      /\ out.merchants = merchants

\* C19: MerchantRegistry.initialize succeeds only while no admin is stored and
\* every later initialize fails with AdminAlreadySet; once a registry admin is
\* stored no step changes it.
C19_RegistryAdminSetOnce ==
    /\ [] C19_InitializeGuarded
    /\ [][registry_admin # NoneVal => registry_admin' = registry_admin]_vars

\* C19 witness: an initialize naming another account was refused with
\* AdminAlreadySet and the stored admin is still the first one.
C19_Witness ==
    /\ call.op = "initialize"
    /\ call.err = "AdminAlreadySet"
    /\ registry_admin # NoneVal
    /\ registry_admin # Some(call.arg.admin)

\* C20 (state part): verify_merchant(admin, merchant_id) fails with
\* Unauthorized when no registry admin is stored or admin is not the stored
\* one, for registered and unregistered merchants alike; for the stored admin
\* it fails with MerchantNotFound on an unregistered merchant and otherwise
\* sets verified of that merchant and changes nothing else. A failure changes
\* nothing.
C20_VerifyGuarded ==
    \A a \in Accounts, m \in MerchantIds :
        LET out == verify_merchant(a, m) IN
        /\ registry_admin # Some(a) => (~out.ok /\ out.err = "Unauthorized")
        /\ (registry_admin = Some(a) /\ m \notin DOMAIN merchants)
           => (~out.ok /\ out.err = "MerchantNotFound")
        /\ (registry_admin = Some(a) /\ m \in DOMAIN merchants)
           => /\ out.ok
              /\ out.merchants = [merchants EXCEPT ![m] = [@ EXCEPT !.verified = TRUE]]
              /\ out.registry_admin = registry_admin
        /\ ~out.ok => (out.merchants = merchants /\ out.registry_admin = registry_admin)

\* C20: verify_merchant fails with Unauthorized for an admin other than the
\* stored registry admin or when none is stored (before the merchant is looked
\* up), fails with MerchantNotFound for an unregistered merchant, and
\* otherwise sets verified = true; no step sets a verified flag back to false
\* or removes a verified merchant.
C20_VerifiedIsOneWay ==
    /\ [] C20_VerifyGuarded
    /\ [][\A m \in DOMAIN merchants :
             merchants[m].verified
             => (m \in DOMAIN merchants' /\ merchants'[m].verified)]_vars

\* C20 witness: a verified merchant was updated by its owner afterwards and is
\* still verified, while another merchant is registered and not verified.
C20_Witness ==
    /\ call.op = "update_merchant"
    /\ call.ok
    /\ merchants[call.arg.merchant_id].verified
    /\ ~merchants[call.arg.merchant_id].active
    /\ \E m \in DOMAIN merchants : ~merchants[m].verified

\* C21: in every reachable state, register_merchant for a merchant_id that is
\* not stored succeeds and stores for it the record of its arguments with
\* verified = false, active = true and created_at = now, leaving every other
\* merchant and the registry admin as they were; for a stored merchant_id it
\* fails with MerchantAlreadyExists and changes nothing, whatever the stored
\* record's verified and active flags and fields.
C21_RegisterOnce ==
    \A m \in MerchantIds, b \in BusinessNames, c \in SettlementCurrencies :
        LET out == register_merchant(m, b, c) IN
        /\ m \notin DOMAIN merchants
           => /\ out.ok
              /\ DOMAIN out.merchants = (DOMAIN merchants) \cup {m}
              /\ out.merchants[m] = [merchant_id |-> m, business_name |-> b,
                                     settlement_currency |-> c, verified |-> FALSE,
                                     active |-> TRUE, created_at |-> now]
              /\ \A x \in DOMAIN merchants : out.merchants[x] = merchants[x]
              /\ out.registry_admin = registry_admin
        /\ m \in DOMAIN merchants
           => /\ ~out.ok
              /\ out.err = "MerchantAlreadyExists"
              /\ out.merchants = merchants
              /\ out.registry_admin = registry_admin

\* C21 witness: a register_merchant was refused for a merchant that is
\* verified, was deactivated by an update, and was registered at an
\* earlier clock value.
C21_Witness ==
    /\ call.op = "register_merchant"
    /\ call.err = "MerchantAlreadyExists"
    /\ merchants[call.arg.merchant_id].verified
    /\ ~merchants[call.arg.merchant_id].active
    /\ merchants[call.arg.merchant_id].created_at < now

\* the settlement currencies update_merchant is evaluated with
CurrencyInputs == SettlementCurrencies \cup {"EURC"}

\* C22: in every reachable state, update_merchant on a stored merchant
\* succeeds and stores for it a record whose business_name,
\* settlement_currency and active are the supplied values where supplied and
\* the previous values where not, and whose merchant_id, verified and
\* created_at are the previous ones; every other merchant and the registry
\* admin stay as they were. On a merchant_id that is not stored it fails with
\* MerchantNotFound and changes nothing.
C22_UpdateExactlySupplied ==
    \A m \in MerchantIds, b \in OptionOf(BusinessNames), c \in OptionOf(CurrencyInputs),
       a \in OptionOf(BOOLEAN) :
        LET out == update_merchant(m, b, c, a) IN
        /\ m \in DOMAIN merchants
           => /\ out.ok
              /\ DOMAIN out.merchants = DOMAIN merchants
              /\ out.merchants[m].business_name
                    = (IF b = NoneVal THEN merchants[m].business_name ELSE b[1])
              /\ out.merchants[m].settlement_currency
                    = (IF c = NoneVal THEN merchants[m].settlement_currency ELSE c[1])
              /\ out.merchants[m].active
                    = (IF a = NoneVal THEN merchants[m].active ELSE a[1])
              /\ out.merchants[m].merchant_id = merchants[m].merchant_id
              /\ out.merchants[m].verified = merchants[m].verified
              /\ out.merchants[m].created_at = merchants[m].created_at
              /\ \A x \in DOMAIN merchants : x # m => out.merchants[x] = merchants[x]
              /\ out.registry_admin = registry_admin
        /\ m \notin DOMAIN merchants
           => /\ ~out.ok
              /\ out.err = "MerchantNotFound"
              /\ out.merchants = merchants
              /\ out.registry_admin = registry_admin

\* C22 witness: an update_merchant at a later clock value left a verified,
\* deactivated merchant with a business name other than the other merchant's,
\* which is still active and not verified.
C22_Witness ==
    /\ call.op = "update_merchant"
    /\ call.ok
    /\ merchants[call.arg.merchant_id].verified
    /\ ~merchants[call.arg.merchant_id].active
    /\ merchants[call.arg.merchant_id].created_at < now
    /\ \E x \in DOMAIN merchants :
          /\ x # call.arg.merchant_id
          /\ merchants[x].active
          /\ ~merchants[x].verified
          /\ merchants[x].business_name # merchants[call.arg.merchant_id].business_name

\* C23: every transfer_admin(a, a) by an account a that holds ADMIN succeeds;
\* afterwards a still holds ADMIN, the stored admin is a, and the role grants
\* are the ones before the call.
C23_TransferToSelf ==
    [][(/\ call'.op = "transfer_admin"
        /\ call'.arg.current_admin = call'.arg.new_admin
        /\ has_role(ROLE_ADMIN, call'.arg.current_admin))
       => /\ call'.ok
          /\ << ROLE_ADMIN, call'.arg.current_admin >> \in roles'
          /\ admin' = Some(call'.arg.current_admin)
          /\ roles' = roles]_vars

\* C23 witness: an account that holds ADMIN and another role transferred the
\* admin to itself while another account holds ADMIN too; it is the stored
\* admin and still holds both roles.
C23_Witness ==
    /\ call.op = "transfer_admin"
    /\ call.ok
    /\ call.arg.current_admin = call.arg.new_admin
    /\ has_role(ROLE_ADMIN, call.arg.current_admin)
    /\ has_role(ROLE_ORACLE, call.arg.current_admin)
    /\ admin = Some(call.arg.current_admin)
    /\ \E x \in Accounts : x # call.arg.current_admin /\ has_role(ROLE_ADMIN, x)

\* the events a payment in the given status has published
EventsOf(status) ==
    CASE status = PENDING -> << "CREATED" >>
      [] status = CONFIRMED -> << "CREATED", "VERIFIED" >>
      [] status = FAILED -> << "CREATED", "FAILED" >>
      [] status = EXPIRED -> << "CREATED", "CANCELLED" >>

\* C24 (state part): for every payment id the published events are none while
\* the id is not stored, CREATED alone while the payment is Pending, and
\* CREATED followed by the one event of its status afterwards (VERIFIED for
\* Confirmed, FAILED for Failed, CANCELLED for Expired).
C24_EventsMatchStatus ==
    \A id \in PaymentIds :
        events[id] = IF id \in DOMAIN payments THEN EventsOf(payments[id].status) ELSE << >>

\* C24 (step part): a step publishes at most one event; it publishes one for a
\* payment id exactly when it stores that payment or changes its status, and
\* nothing published is ever withdrawn.
C24_EventPerChange ==
    \A id \in PaymentIds :
        LET changed == \/ (id \notin DOMAIN payments /\ id \in DOMAIN payments')
                       \/ (/\ id \in DOMAIN payments
                           /\ id \in DOMAIN payments'
                           /\ payments'[id].status # payments[id].status)
        IN
        /\ changed => (Len(events'[id]) = Len(events[id]) + 1
                       /\ SubSeq(events'[id], 1, Len(events[id])) = events[id]
                       /\ \A x \in PaymentIds \ {id} : events'[x] = events[x])
        /\ ~changed => events'[id] = events[id]

\* C24: for each payment_id the published events are CREATED followed by at
\* most one of VERIFIED, FAILED, CANCELLED: a successful create_payment
\* publishes one CREATED, a status change publishes the one event of the new
\* status, and no event is published without the stored change.
C24_NotificationSequence ==
    [] C24_EventsMatchStatus /\ [][C24_EventPerChange]_vars

\* C24 witness: one payment was cancelled after its expiry and another failed
\* verification; each has published CREATED and then the event of its status.
C24_Witness ==
    /\ DOMAIN payments = {"p1", "p2"}
    /\ payments["p1"].status = EXPIRED
    /\ events["p1"] = << "CREATED", "CANCELLED" >>
    /\ payments["p2"].status = FAILED
    /\ events["p2"] = << "CREATED", "FAILED" >>

\* C25: in every reachable state, every stored payment that is Confirmed has
\* payer_address, transaction_hash and confirmed_at set, and every stored
\* payment that is Pending, Failed or Expired has all three unset.
C25_ConfirmationFields ==
    \A id \in DOMAIN payments :
        LET p == payments[id] IN
        /\ p.status = CONFIRMED
           => (p.payer_address # NoneVal /\ p.transaction_hash # NoneVal
               /\ p.confirmed_at # NoneVal)
        /\ p.status # CONFIRMED
           => (p.payer_address = NoneVal /\ p.transaction_hash = NoneVal
               /\ p.confirmed_at = NoneVal)

\* C25 witness: a Confirmed payment with payer, hash and confirmation time
\* recorded stands next to a Failed payment with none of them.
C25_Witness ==
    /\ \E id \in DOMAIN payments :
          /\ payments[id].status = CONFIRMED
          /\ payments[id].payer_address = Some("payer1")
          /\ payments[id].transaction_hash = Some("h1")
          /\ payments[id].confirmed_at = Some(now)
    /\ \E id \in DOMAIN payments :
          /\ payments[id].status = FAILED
          /\ payments[id].payer_address = NoneVal

\* C26 (state part): the refund counter equals the number of successful
\* create_refund calls so far (0 at deployment), and the n-th of them got the
\* id rendered from n.
C26_CounterCountsCreates ==
    /\ refund_counter = Len(issued)
    /\ \A n \in DOMAIN issued : issued[n].refund_id = refund_id_of(n)

\* C26 (step part): a successful create_refund raises the counter by exactly
\* one; every other step, a failed create_refund included, leaves it as it is.
C26_CounterStep ==
    IF call'.op = "create_refund" /\ call'.ok
    THEN refund_counter' = refund_counter + 1
    ELSE refund_counter' = refund_counter

\* C26: RefundCounter starts at 0, increases by exactly 1 on every successful
\* create_refund, is changed by no other operation, never decreases, and the
\* n-th successful create_refund observes the value n.
C26_RefundCounter ==
    [] C26_CounterCountsCreates /\ [][C26_CounterStep]_vars

\* C26 witness: a create_refund failed with InvalidAmount after eleven
\* refunds had been created and one of them processed; the counter is
\* eleven.
C26_Witness ==
    /\ call.op = "create_refund"
    /\ call.err = "InvalidAmount"
    /\ refund_counter = 11
    /\ Len(issued) = 11
    /\ refunds["refund_n"].status = REFUND_COMPLETED

\* C27: in every reachable state, every record get_payment_refunds(p) returns
\* has payment_id p. Refuted by the code: past the tenth refund the ids
\* collide (C15), and the "refund_n" entry of one payment's index resolves to
\* the record last created, which can belong to another payment.
C27_ReturnedRefundsBelongToPayment ==
    \A p \in RefundPaymentIds :
        LET ret == get_payment_refunds(p).ret IN
        \A j \in DOMAIN ret : ret[j].payment_id = p

\* verify_payment with these arguments, resp. cancel_payment, moves the
\* payment out of Pending
VerifyMoves(id, h, p, a) ==
    LET out == verify_payment(id, h, p, a) IN
    out.ok /\ out.payments[id].status # PENDING
CancelMoves(id) ==
    LET out == cancel_payment(id) IN
    out.ok /\ out.payments[id].status # PENDING

\* C28: in every reachable state and for every Pending payment, verify_payment
\* (with any hash, payer and amount) moves it out of Pending exactly when
\* now <= expires_at, cancel_payment exactly when now > expires_at, and so
\* exactly one of the two does, at now = expires_at too; the one that does
\* not fails (PaymentExpired, resp. Unauthorized) and writes nothing.
C28_ExactlyOneTimeGuard ==
    \A id \in DOMAIN payments :
        payments[id].status = PENDING
        => /\ CancelMoves(id) <=> now > payments[id].expires_at
           /\ ~CancelMoves(id) => /\ cancel_payment(id).err = "Unauthorized"
                                  /\ cancel_payment(id).payments = payments
           /\ \A h \in Hashes, p \in Payers, a \in Amounts :
                 /\ VerifyMoves(id, h, p, a) <=> now <= payments[id].expires_at
                 /\ VerifyMoves(id, h, p, a) <=> ~CancelMoves(id)
                 /\ ~VerifyMoves(id, h, p, a)
                    => /\ verify_payment(id, h, p, a).err = "PaymentExpired"
                       /\ verify_payment(id, h, p, a).payments = payments

\* C28 witness: at now = expires_at, after the clock has advanced, a
\* cancel_payment on a Pending payment was refused; verify_payment is the one
\* admitted.
C28_Witness ==
    /\ call.op = "cancel_payment"
    /\ call.err = "Unauthorized"
    /\ payments[call.arg.payment_id].status = PENDING
    /\ now = payments[call.arg.payment_id].expires_at
    /\ now > 0
    /\ VerifyMoves(call.arg.payment_id, "h1", "payer1", payments[call.arg.payment_id].amount)

\* C29: in every reachable state, every Confirmed payment has
\* created_at <= confirmed_at <= expires_at (the ledger time never goes
\* back), and a payment created with expires_at before its created_at is not
\* Confirmed.
C29_ConfirmedBeforeExpiry ==
    \A id \in DOMAIN payments :
        LET p == payments[id] IN
        /\ p.status = CONFIRMED
           => /\ p.confirmed_at # NoneVal
              /\ p.confirmed_at[1] <= p.expires_at
              /\ p.created_at <= p.confirmed_at[1]
        /\ p.expires_at < p.created_at => p.status # CONFIRMED

\* C29 witness: one payment was confirmed at its expiry time, later than its
\* creation, and a verify_payment on another payment, created with its
\* expires_at already past, was refused as expired.
C29_Witness ==
    /\ call.op = "verify_payment"
    /\ call.err = "PaymentExpired"
    /\ payments[call.arg.payment_id].expires_at < payments[call.arg.payment_id].created_at
    /\ \E id \in DOMAIN payments :
          /\ payments[id].status = CONFIRMED
          /\ payments[id].created_at < payments[id].confirmed_at[1]
          /\ payments[id].confirmed_at[1] = payments[id].expires_at

\* C30: in every state after initialize, at least one account holds the ADMIN
\* role. Refuted by the code: revoke_role(admin, ADMIN, admin) succeeds (C9)
\* and leaves no account with ADMIN, after which every grant_role,
\* revoke_role and transfer_admin fails with Unauthorized.
C30_SomeAdminRemains ==
    admin # NoneVal => \E a \in Accounts : has_role(ROLE_ADMIN, a)

====
